---- MODULE Spec2Model ----
(***************************************************************************)
(* Model of the streaming chat session of duck-duck-go-ai-rs:              *)
(*   - the response decoder (duck-duck-go-ai/src/model.rs,                  *)
(*     ChatResponseStream::poll_next), and                                  *)
(*   - the chat session of the Python binding                              *)
(*     (duck-duck-go-ai-py/src/lib.rs: Chat, ChatRequestGuard, the          *)
(*     background task of send_message, ChatResponseStream::__next__).      *)
(*                                                                         *)
(* Text is a sequence of characters (a String is a tuple of one-letter     *)
(* strings), push_str is \o.  An Option<String> role is a string, with     *)
(* NoRole for None.                                                        *)
(***************************************************************************)
EXTENDS Naturals, Sequences, FiniteSets, TLC

\* ------------------------------------------------------------------ bounds
\* Longest upstream frame sequence of one response.
MaxFrames == 3
\* Number of send_message calls that get past the try-lock.
MaxSends == 2

\* --------------------------------------------------------------- constants
DEFAULT_MODEL == "gpt-4o-mini"
Models == {"gpt-4o-mini", "gpt-4o"}

\* Option<String> None of ChatResponseMessage.role (and of SseEvent.data).
NoRole == "<None>"
NoData == "<None>"
\* `let mut role = None` of the background task, before any delta.
Unset == "<unset>"
\* `let mut stream_error = None`.
NoError == "<no error>"

\* The data strings an upstream frame may carry.
DoneData == "[DONE]"
BadJson == "{"
JsonA == "{role:assistant,message:a}"
JsonT == "{role:tool,message:c}"
JsonNoRole == "{message:b}"
DeltaData == {JsonA, JsonT, JsonNoRole}

\* Result<SseEvent, SseCodecError> items of the upstream frame source.
CodecError == [err |-> TRUE, data |-> NoData]
Event(d) == [err |-> FALSE, data |-> d]
FrameSet == {CodecError} \cup {Event(d) : d \in {NoData, DoneData, BadJson} \cup DeltaData}

SeqsUpTo(S, n) == UNION {[1..k -> S] : k \in 0..n}
FrameLists == SeqsUpTo(FrameSet, MaxFrames)

\* The library's Error variants, as raised by poll_next.
InvalidSseEvent == "invalid sse event"
SseEventMissingData == "sse event missing data"
InvalidSseEventData == "invalid sse json data"
DecodeErrors == {InvalidSseEvent, SseEventMissingData, InvalidSseEventData}
\* anyhow messages of the binding.
MissingRoleError == "missing role"

\* ------------------------------------------------------------ the decoder
\* serde_json::from_str::<ChatResponseMessage>(&data): the delta a data
\* string parses to, or a parse error.
NoDelta == [role |-> NoRole, message |-> <<>>]
from_str(data) ==
    CASE data = JsonA -> [ok |-> TRUE, delta |-> [role |-> "assistant", message |-> <<"a">>]]
      [] data = JsonT -> [ok |-> TRUE, delta |-> [role |-> "tool", message |-> <<"c">>]]
      [] data = JsonNoRole -> [ok |-> TRUE, delta |-> [role |-> NoRole, message |-> <<"b">>]]
      [] OTHER -> [ok |-> FALSE, delta |-> NoDelta]

\* One item of the decoder's output: Poll::Ready(None), Some(Ok(delta)) or
\* Some(Err(error)).
ItemNone == [kind |-> "none", delta |-> NoDelta, error |-> NoError]
ItemOk(d) == [kind |-> "ok", delta |-> d, error |-> NoError]
ItemErr(e) == [kind |-> "err", delta |-> NoDelta, error |-> e]

\* poll_next as it would be if the payload were parsed before the sentinel
\* is looked for.
poll_next_parse_first(fs, p, d) ==
    IF d THEN [item |-> ItemNone, pos |-> p, done |-> d]
    ELSE IF p >= Len(fs) THEN [item |-> ItemNone, pos |-> p, done |-> d]
    ELSE LET event == fs[p + 1] IN
         IF event.err THEN [item |-> ItemErr(InvalidSseEvent), pos |-> p + 1, done |-> d]
         ELSE IF event.data = NoData
              THEN [item |-> ItemErr(SseEventMissingData), pos |-> p + 1, done |-> d]
         ELSE LET parsed == from_str(event.data) IN
              IF ~parsed.ok
              THEN [item |-> ItemErr(InvalidSseEventData), pos |-> p + 1, done |-> d]
              ELSE IF event.data = DoneData
              THEN [item |-> ItemNone, pos |-> p + 1, done |-> TRUE]
              ELSE [item |-> ItemOk(parsed.delta), pos |-> p + 1, done |-> d]

\* poll_next as it would be if the sentinel did not latch `done`.
poll_next_no_latch(fs, p, d) ==
    IF d THEN [item |-> ItemNone, pos |-> p, done |-> d]
    ELSE IF p >= Len(fs) THEN [item |-> ItemNone, pos |-> p, done |-> d]
    ELSE LET event == fs[p + 1] IN
         IF event.err THEN [item |-> ItemErr(InvalidSseEvent), pos |-> p + 1, done |-> d]
         ELSE IF event.data = NoData
              THEN [item |-> ItemErr(SseEventMissingData), pos |-> p + 1, done |-> d]
         ELSE IF event.data = DoneData
              THEN [item |-> ItemNone, pos |-> p + 1, done |-> d]
         ELSE LET parsed == from_str(event.data) IN
              IF parsed.ok THEN [item |-> ItemOk(parsed.delta), pos |-> p + 1, done |-> d]
              ELSE [item |-> ItemErr(InvalidSseEventData), pos |-> p + 1, done |-> d]

\* ChatResponseStream::poll_next on upstream `fs` of which `p` frames were
\* consumed, with the stream's `done` flag `d`: the item, the new position
\* and the new flag.
poll_next(fs, p, d) ==
    IF d THEN [item |-> ItemNone, pos |-> p, done |-> d]
    ELSE IF p >= Len(fs) THEN [item |-> ItemNone, pos |-> p, done |-> d]
    ELSE LET event == fs[p + 1] IN
         IF event.err THEN [item |-> ItemErr(InvalidSseEvent), pos |-> p + 1, done |-> d]
         ELSE IF event.data = NoData
              THEN [item |-> ItemErr(SseEventMissingData), pos |-> p + 1, done |-> d]
         ELSE IF event.data = DoneData
              THEN [item |-> ItemNone, pos |-> p + 1, done |-> TRUE]
         ELSE LET parsed == from_str(event.data) IN
              IF parsed.ok THEN [item |-> ItemOk(parsed.delta), pos |-> p + 1, done |-> d]
              ELSE [item |-> ItemErr(InvalidSseEventData), pos |-> p + 1, done |-> d]

\* ------------------------------------------------------------------ state
VARIABLES
    messages,      \* ChatRequest.messages: the transcript
    model,         \* ChatRequest.model
    locked,        \* the tokio Mutex around the ChatRequest is held
    pop_last,      \* ChatRequestGuard.pop_last of the guard that holds the lock
    pc,            \* position of the background task of the latest send
    frames,        \* the upstream frame sequence of the response
    pos,           \* number of upstream frames consumed
    done,          \* ChatResponseStream.done
    role,          \* task local `role`
    content,       \* task local `content`
    stream_error,  \* task local `stream_error`
    queue,         \* messages in the unbounded channel, not yet received
    txAlive,       \* the task still owns the sender `tx`
    rxAlive,       \* the consumer still owns the receiver `rx`
    received,      \* what __next__ returned so far, in order
    rxEnd,         \* __next__ has returned None (StopIteration)
    result,        \* the outcome of the latest call on the Chat object
    sentLog,       \* history: every message the task passed to tx.send
    preMsgs,       \* history: the transcript when the latest send was invoked
    outcome,       \* history: how the latest send resolved
    commits,       \* history: number of sends that committed
    failed,        \* history: number of sends that failed after the try-lock
    yielded,       \* history: the items poll_next returned (decoder on its own)
    vqd,           \* ChatRequest.vqd: the session token
    init_response  \* the transport's answer to the request of Client::init_chat

vars == <<messages, model, locked, pop_last, pc, frames, pos, done, role, content,
          stream_error, queue, txAlive, rxAlive, received, rxEnd, result, sentLog,
          preMsgs, outcome, commits, failed, yielded, vqd, init_response>>

sessionVars == <<messages, model, locked, pop_last>>
taskVars == <<pc, frames, pos, done, role, content, stream_error>>
chanVars == <<queue, txAlive, rxAlive, received, rxEnd, sentLog>>
histVars == <<preMsgs, outcome, commits, failed>>
initVars == <<vqd, init_response>>

\* The text a caller may send.
Contents == {<<"q">>}

ChatMessage(r, c) == [role |-> r, content |-> c]
Result(op, res, val) == [op |-> op, res |-> res, val |-> val]

\* A channel message: anyhow::Result<String>.
Ok(token) == [ok |-> TRUE, token |-> token, error |-> NoError]
Err(error) == [ok |-> FALSE, token |-> <<>>, error |-> error]

\* A try-lock that never refuses.
get_chat_request_always(isLocked) == TRUE

\* Chat::get_chat_request / try_lock_owned: the try-lock succeeds iff the
\* mutex is free.
get_chat_request(isLocked) == ~isLocked

\* push_response that defuses the guard but loses the response.
push_response_lost(msgs, response) == msgs

\* ChatRequestGuard::push_response: append the response, defuse the guard.
push_response(msgs, response) == Append(msgs, response)

\* A guard whose drop removes the oldest turn.
guard_drop_front(msgs, popLast) ==
    IF popLast /\ Len(msgs) > 0 THEN Tail(msgs) ELSE msgs

\* A guard whose drop pops even after it was defused.
guard_drop_always(msgs, popLast) ==
    IF Len(msgs) > 0 THEN SubSeq(msgs, 1, Len(msgs) - 1) ELSE msgs

\* A guard whose drop never pops.
guard_drop_keep(msgs, popLast) == msgs

\* Drop for ChatRequestGuard: pop the last message unless defused.
guard_drop(msgs, popLast) ==
    IF popLast /\ Len(msgs) > 0 THEN SubSeq(msgs, 1, Len(msgs) - 1) ELSE msgs

\* A send that swallows errors.
tx_send_swallow(q, rxOpen, m) == IF rxOpen /\ m.ok THEN Append(q, m) ELSE q

\* tx.send(m) on the unbounded channel: queued while the receiver exists,
\* refused (and the result ignored) once it was dropped.
tx_send(q, rxOpen, m) == IF rxOpen THEN Append(q, m) ELSE q

\* A task that waits for the receiver to take the fragment, as on a channel
\* without room: it never goes on once the receiver is gone.
after_send_block(rxOpen) == IF rxOpen THEN "next" ELSE "blocked"

\* A task that gives up once the receiver is gone.
after_send_abort(rxOpen) == IF rxOpen THEN "next" ELSE "finish"

\* `let _ = tx.send(..).is_ok()`: whether the send was accepted or not, the
\* task goes on with the next turn of the loop.
after_send(rxOpen) == "next"

\* A receive that takes the newest queued message.
blocking_recv_newest(q) == [msg |-> q[Len(q)], rest |-> SubSeq(q, 1, Len(q) - 1)]

\* rx.blocking_recv(): the oldest queued message.
blocking_recv(q) == [msg |-> Head(q), rest |-> Tail(q)]

\* ---------------------------------------------------------- Client::init_chat
\* Longest session token.
MaxTokenLen == 2
\* Header values that are visible ASCII: the tokens a server may hand out.
VqdTokens == SeqsUpTo({"4", "-"}, MaxTokenLen)
\* No x-vqd-4 header in the response; an x-vqd-4 header whose bytes are not
\* visible ASCII.
NoHeader == <<"<absent>">>
OpaqueHeader == <<"<bytes>">>
\* ChatRequest.vqd = None; ChatRequest.model before there is a ChatRequest.
NoVqd == <<"<None>">>
NoModel == "<no model>"

\* What the transport may answer to the GET of init_chat: whether the
\* request could be sent at all, the status, the x-vqd-4 header, and whether
\* the body could be read.
Responses ==
    [sent : BOOLEAN, status : {200, 403, 500}, header : {NoHeader, OpaqueHeader} \cup VqdTokens,
     bodyOk : BOOLEAN]

\* Response::error_for_status: an error for 4xx and 5xx.
error_for_status(status) == status >= 400

\* HeaderValue::to_str: the text of a header of visible ASCII, else nothing.
to_str(h) == IF h = OpaqueHeader THEN [ok |-> FALSE, text |-> <<>>] ELSE [ok |-> TRUE, text |-> h]

\* init_chat that falls back to an empty token when the header is missing.
init_chat_default(resp) ==
    IF ~resp.sent \/ error_for_status(resp.status)
    THEN [ok |-> FALSE, error |-> "Reqwest", vqd |-> NoVqd]
    ELSE IF ~resp.bodyOk
    THEN [ok |-> FALSE, error |-> "Reqwest", vqd |-> NoVqd]
    ELSE [ok |-> TRUE, error |-> NoError,
          vqd |-> IF resp.header = NoHeader \/ ~to_str(resp.header).ok
                  THEN <<>> ELSE to_str(resp.header).text]

\* Client::init_chat on the transport's answer: the token of the new
\* ChatRequest, or the error.
init_chat(resp) ==
    IF ~resp.sent \/ error_for_status(resp.status)
    THEN [ok |-> FALSE, error |-> "Reqwest", vqd |-> NoVqd]
    ELSE IF resp.header = NoHeader \/ ~to_str(resp.header).ok
    THEN [ok |-> FALSE, error |-> "MissingVqd", vqd |-> NoVqd]
    ELSE IF ~resp.bodyOk
    THEN [ok |-> FALSE, error |-> "Reqwest", vqd |-> NoVqd]
    ELSE [ok |-> TRUE, error |-> NoError, vqd |-> to_str(resp.header).text]

\* The answer that made the session of Init.
InitResponse == [sent |-> TRUE, status |-> 200, header |-> <<"4">>, bodyOk |-> TRUE]

\* Number of sends that got past the try-lock.
Started == commits + failed + (IF locked THEN 1 ELSE 0)

\* No send was made yet: no task, no channel, no history.
InitIdle ==
    /\ locked = FALSE
    /\ pop_last = FALSE
    /\ pc = "idle"
    /\ pos = 0
    /\ done = FALSE
    /\ role = Unset
    /\ content = <<>>
    /\ stream_error = NoError
    /\ queue = <<>>
    /\ txAlive = FALSE
    /\ rxAlive = FALSE
    /\ received = <<>>
    /\ rxEnd = FALSE
    /\ sentLog = <<>>
    /\ preMsgs = <<>>
    /\ outcome = "none"
    /\ commits = 0
    /\ failed = 0
    /\ yielded = <<>>

\* Everything but the upstream frames, after Chat::init.
InitChat ==
    /\ InitIdle
    /\ init_response = InitResponse
    /\ messages = <<>>
    /\ model = DEFAULT_MODEL
    /\ vqd = init_chat(InitResponse).vqd
    /\ result = Result("init", "Ok", 0)

Init ==
    /\ InitChat
    /\ frames = <<>>

\* --------------------------------------------------------- Chat operations
\* A model lock that holds only at exactly one completed exchange.
model_locked_first(n) == n = 2

\* A model lock that engages one turn late.
model_locked_late(n) == n > 2

\* `chat_request.messages.len() >= 2` of set_model.
model_locked(n) == n >= 2

\* Chat::set_model
set_model(m) ==
    /\ IF ~get_chat_request(locked)
       THEN /\ result' = Result("set_model", "Busy", 0)
            /\ UNCHANGED model
       ELSE IF model_locked(Len(messages))
       THEN /\ result' = Result("set_model", "ModelLocked", 0)
            /\ UNCHANGED model
       ELSE /\ model' = m
            /\ result' = Result("set_model", "Ok", 0)
    /\ UNCHANGED <<messages, locked, pop_last, taskVars, chanVars, histVars, yielded, initVars>>

\* Chat::__len__
len ==
    /\ IF ~get_chat_request(locked)
       THEN result' = Result("len", "Busy", 0)
       ELSE result' = Result("len", "Ok", Len(messages))
    /\ UNCHANGED <<sessionVars, taskVars, chanVars, histVars, yielded, initVars>>

\* The indices a caller asks for: every turn a session can hold, and one
\* past them.
Indices == 0 .. (2 * MaxSends)

\* Chat::__getitem__(index), index counted from 0: the turn at the index, of
\* which the result keeps the position (the turn is messages[index + 1]).
getitem(index) ==
    /\ IF ~get_chat_request(locked)
       THEN result' = Result("getitem", "Busy", 0)
       ELSE IF index >= Len(messages)
       THEN result' = Result("getitem", "IndexError", 0)
       ELSE result' = Result("getitem", "Ok", index)
    /\ UNCHANGED <<sessionVars, taskVars, chanVars, histVars, yielded, initVars>>

\* Chat::send_message(content), with the transport's answer to CLIENT.chat:
\* (TOKIO_RUNTIME is the runtime Chat::init already used, so its lookup at
\* the top of send_message succeeds on every Chat that exists.)
\* a failure, or a response whose body starts with the frames fs (more may
\* arrive while the task reads it).
send_message(c, transportOk, fs) ==
    IF ~get_chat_request(locked)
    THEN /\ result' = Result("send_message", "Busy", 0)
         /\ UNCHANGED <<sessionVars, taskVars, chanVars, histVars, yielded, initVars>>
    ELSE /\ Started < MaxSends
         /\ preMsgs' = messages
         /\ LET pushed == Append(messages, ChatMessage("user", c)) IN
            IF ~transportOk \/ vqd = NoVqd
            THEN \* `?` inside block_on drops the guard: pop, unlock.
                 /\ messages' = guard_drop(pushed, TRUE)
                 /\ result' = Result("send_message", "TransportError", 0)
                 /\ outcome' = "transport_error"
                 /\ failed' = failed + 1
                 /\ UNCHANGED <<model, locked, pop_last, taskVars, chanVars, commits, yielded, initVars>>
            ELSE /\ messages' = pushed
                 /\ locked' = TRUE
                 /\ pop_last' = TRUE
                 /\ pc' = "next"
                 /\ frames' = fs
                 /\ pos' = 0
                 /\ done' = FALSE
                 /\ role' = Unset
                 /\ content' = <<>>
                 /\ stream_error' = NoError
                 /\ queue' = <<>>
                 /\ txAlive' = TRUE
                 /\ rxAlive' = TRUE
                 /\ received' = <<>>
                 /\ rxEnd' = FALSE
                 /\ sentLog' = <<>>
                 /\ result' = Result("send_message", "Ok", 0)
                 /\ outcome' = "pending"
                 /\ UNCHANGED <<model, commits, failed, yielded, initVars>>

\* ------------------------------------------------------ the background task
\* One turn of `while let Some(message_result) = stream.next().await`.
\* On Ok(message) the task assigns `role = Some(message.role)` and appends
\* message.message, for every delta: the running role becomes the role field
\* of that delta, NoRole when the delta carries none.
\* The upstream frame source has either delivered one more frame (drawn
\* from F) or has ended.
TaskNext(F) ==
    /\ pc = "next"
    /\ \E arrived \in {<<>>} \cup {<<f>> : f \in IF Len(frames) < MaxFrames THEN F ELSE {}} :
       LET upstream == frames \o arrived
           r == poll_next(upstream, pos, done) IN
       /\ frames' = upstream
       /\ pos' = r.pos
       /\ done' = r.done
       /\ CASE r.item.kind = "ok" ->
                 /\ role' = r.item.delta.role
                 /\ content' = content \o r.item.delta.message
                 /\ queue' = tx_send(queue, rxAlive, Ok(r.item.delta.message))
                 /\ sentLog' = Append(sentLog, Ok(r.item.delta.message))
                 /\ pc' = after_send(rxAlive)
                 /\ UNCHANGED stream_error
            [] r.item.kind = "err" ->
                 /\ stream_error' = r.item.error
                 /\ pc' = "finish"
                 /\ UNCHANGED <<role, content, queue, sentLog>>
            [] OTHER ->
                 /\ pc' = "finish"
                 /\ UNCHANGED <<role, content, stream_error, queue, sentLog>>
    /\ UNCHANGED <<sessionVars, txAlive, rxAlive, received, rxEnd, result,
                   histVars, yielded, initVars>>

\* `match stream_error { ... }` after the loop.
TaskFinish ==
    /\ pc = "finish"
    /\ IF stream_error # NoError
       THEN /\ queue' = tx_send(queue, rxAlive, Err(stream_error))
            /\ sentLog' = Append(sentLog, Err(stream_error))
            /\ pc' = "drop_guard"
            /\ UNCHANGED <<messages, pop_last>>
       ELSE IF role # Unset
       THEN /\ messages' = push_response(messages, ChatMessage(role, content))
            /\ pop_last' = FALSE
            /\ pc' = "drop_guard"
            /\ UNCHANGED <<queue, sentLog>>
       ELSE /\ queue' = tx_send(queue, rxAlive, Err(MissingRoleError))
            /\ sentLog' = Append(sentLog, Err(MissingRoleError))
            /\ pc' = "end"
            /\ UNCHANGED <<messages, pop_last>>
    /\ UNCHANGED <<model, locked, frames, pos, done, role, content, stream_error,
                   txAlive, rxAlive, received, rxEnd, result, histVars, yielded, initVars>>

\* The guard is dropped: explicitly by drop(chat_request), or with the
\* task's captured variables when the task ends.
TaskDropGuard ==
    /\ pc \in {"drop_guard", "end"}
    /\ locked
    /\ messages' = guard_drop(messages, pop_last)
    /\ locked' = FALSE
    /\ pc' = IF txAlive THEN "end" ELSE "idle"
    /\ outcome' = IF ~pop_last THEN "committed"
                  ELSE IF stream_error # NoError THEN "stream_error"
                  ELSE "missing_role"
    /\ commits' = IF pop_last THEN commits ELSE commits + 1
    /\ failed' = IF pop_last THEN failed + 1 ELSE failed
    /\ UNCHANGED <<model, pop_last, frames, pos, done, role, content, stream_error,
                   chanVars, result, preMsgs, yielded, initVars>>

\* The sender is dropped when the task ends: the channel closes.
TaskDropTx ==
    /\ pc = "end"
    /\ txAlive
    /\ txAlive' = FALSE
    /\ pc' = IF locked THEN "end" ELSE "idle"
    /\ UNCHANGED <<sessionVars, frames, pos, done, role, content, stream_error,
                   queue, rxAlive, received, rxEnd, sentLog, result, histVars, yielded, initVars>>

\* ------------------------------------------------------------- the consumer
\* ChatResponseStream::__next__: blocks until a message is queued or the
\* channel is closed and empty.
next ==
    /\ rxAlive
    /\ queue # <<>> \/ ~txAlive
    /\ IF queue # <<>>
       THEN LET r == blocking_recv(queue) IN
            /\ received' = Append(received, r.msg)
            /\ queue' = r.rest
            /\ UNCHANGED rxEnd
       ELSE /\ rxEnd' = TRUE
            /\ UNCHANGED <<received, queue>>
    /\ UNCHANGED <<sessionVars, taskVars, txAlive, rxAlive, sentLog, result, histVars,
                   yielded, initVars>>

\* The Python ChatResponseStream object is released: rx is dropped and the
\* queued messages with it.
DropRx ==
    /\ rxAlive
    /\ rxAlive' = FALSE
    /\ queue' = <<>>
    /\ UNCHANGED <<sessionVars, taskVars, txAlive, received, rxEnd, sentLog, result,
                   histVars, yielded, initVars>>

\* The frames a response may carry in a session of several exchanges.
SessionFrames == {Event(JsonA), Event(DoneData), Event(BadJson)}

Next ==
    \/ \E m \in Models : set_model(m)
    \/ len
    \/ \E index \in Indices : getitem(index)
    \/ \E c \in Contents, ok \in BOOLEAN : send_message(c, ok, <<>>)
    \/ TaskNext(SessionFrames)
    \/ TaskFinish
    \/ TaskDropGuard
    \/ TaskDropTx
    \/ next
    \/ DropRx

\* A session of up to MaxSends exchanges.
Spec == Init /\ [][Next]_vars

\* The same session with the spawned task scheduled fairly by the tokio
\* runtime: a task step that stays possible is eventually taken.  Every
\* response body ends (within MaxFrames frames).
SpecFair ==
    /\ Spec
    /\ WF_vars(TaskNext(SessionFrames))
    /\ WF_vars(TaskFinish)
    /\ WF_vars(TaskDropGuard)
    /\ WF_vars(TaskDropTx)

\* The first exchange of a session, over every response body of up to
\* MaxFrames frames of every kind, fixed when the request is answered.
NextExchange ==
    \/ \E m \in Models : set_model(m)
    \/ len
    \/ /\ locked \/ Started = 0
       /\ \E c \in Contents, ok \in BOOLEAN :
             \E fs \in IF locked \/ ~ok THEN {<<>>} ELSE FrameLists :
                send_message(c, ok, fs)
    \/ TaskNext({})
    \/ TaskFinish
    \/ TaskDropGuard
    \/ TaskDropTx
    \/ next
    \/ DropRx

SpecExchange == Init /\ [][NextExchange]_vars

\* ------------------------------------------------- the decoder on its own
\* Polls made after the upstream frames are used up.
MaxExtraPolls == 2

InitDecoder ==
    /\ InitChat
    /\ frames \in FrameLists

\* One poll of the stream: stream.next().await by any caller.
DecoderPoll ==
    /\ Len(yielded) < Len(frames) + MaxExtraPolls
    /\ LET r == poll_next(frames, pos, done) IN
       /\ pos' = r.pos
       /\ done' = r.done
       /\ yielded' = Append(yielded, r.item)
    /\ UNCHANGED <<sessionVars, pc, frames, role, content, stream_error, chanVars,
                   result, histVars, initVars>>

NextDecoder == DecoderPoll

SpecDecoder == InitDecoder /\ [][NextDecoder]_vars

\* ------------------------------------------------------- Chat::init alone
\* Before Chat::init: there is no ChatRequest yet.
InitNoChat ==
    /\ InitIdle
    /\ frames = <<>>
    /\ init_response \in Responses
    /\ messages = <<>>
    /\ model = NoModel
    /\ vqd = NoVqd
    /\ result = Result("init", "none", 0)

\* Chat::init: block_on(CLIENT.init_chat()), the ChatRequest on success.
chat_init ==
    /\ result = Result("init", "none", 0)
    /\ LET r == init_chat(init_response) IN
       IF r.ok
       THEN /\ messages' = <<>>
            /\ model' = DEFAULT_MODEL
            /\ vqd' = r.vqd
            /\ result' = Result("init", "Ok", 0)
       ELSE /\ result' = Result("init", r.error, 0)
            /\ UNCHANGED <<messages, model, vqd>>
    /\ UNCHANGED <<locked, pop_last, taskVars, chanVars, histVars, yielded, init_response>>

NextInit == chat_init

SpecInit == InitNoChat /\ [][NextInit]_vars

\* ================================================================ claims
\* ---- helpers of the claims' formulas
IsPrefix(a, b) == Len(a) <= Len(b) /\ SubSeq(b, 1, Len(a)) = a

\* A frame that carries a well-formed delta.
IsDeltaFrame(f) == ~f.err /\ f.data \in DeltaData
\* A frame that carries the sentinel.
IsDoneFrame(f) == ~f.err /\ f.data = DoneData
\* The delta a well-formed frame carries.
DeltaOf(f) == from_str(f.data).delta

\* Index of the first sentinel frame of fs, 0 if there is none.
FirstDone(fs) ==
    IF \E i \in 1..Len(fs) : IsDoneFrame(fs[i])
    THEN CHOOSE i \in 1..Len(fs) :
            IsDoneFrame(fs[i]) /\ \A j \in 1..(i - 1) : ~IsDoneFrame(fs[j])
    ELSE 0

\* fs is well-formed delta frames followed by a sentinel (and anything after).
DeltasThenDone(fs) ==
    /\ FirstDone(fs) > 0
    /\ \A i \in 1..(FirstDone(fs) - 1) : IsDeltaFrame(fs[i])

\* ---- C5
\* C5: on a frame sequence of well-formed deltas followed by [DONE], the
\* i-th poll yields the i-th delta for every i before the sentinel, and
\* every poll from the sentinel on reports the end: nothing that follows the
\* sentinel is ever yielded.
InvC5 ==
    DeltasThenDone(frames) =>
        \A i \in 1..Len(yielded) :
            IF i < FirstDone(frames)
            THEN yielded[i] = ItemOk(DeltaOf(frames[i]))
            ELSE yielded[i] = ItemNone

\* A delta, the sentinel, a further delta, and the stream polled past it all.
WitC5 ==
    /\ DeltasThenDone(frames)
    /\ FirstDone(frames) = 2
    /\ Len(frames) = 3
    /\ IsDeltaFrame(frames[3])
    /\ Len(yielded) >= 4

\* ---- C6
\* C6 (as claimed): once a poll has reported the end or yielded an error,
\* every later poll reports the end.
InvC6 ==
    \A i \in 1..Len(yielded) : \A j \in (i + 1)..Len(yielded) :
        yielded[i].kind \in {"none", "err"} => yielded[j].kind = "none"

\* ---- helpers over the response body of the latest send
\* Number of leading well-formed delta frames of fs.
DeltaPrefixLen(fs) ==
    CHOOSE k \in 0..Len(fs) :
        /\ \A i \in 1..k : IsDeltaFrame(fs[i])
        /\ k < Len(fs) => ~IsDeltaFrame(fs[k + 1])

\* The text fragments of the first k frames of fs.
Fragments(fs, k) == [i \in 1..k |-> DeltaOf(fs[i]).message]

RECURSIVE Concat(_, _)
Concat(fs, k) == IF k = 0 THEN <<>> ELSE Concat(fs, k - 1) \o DeltaOf(fs[k]).message

\* The error a frame that is neither a delta nor the sentinel stands for.
ErrorOf(f) ==
    IF f.err THEN InvalidSseEvent
    ELSE IF f.data = NoData THEN SseEventMissingData
    ELSE InvalidSseEventData

IsOk(m) == m.ok
\* The text fragments among channel messages.
Tokens(ms) == LET oks == SelectSeq(ms, IsOk) IN [i \in 1..Len(oks) |-> oks[i].token]

Failures == {"transport_error", "stream_error", "missing_role"}

\* ---- C1
\* C1: when a send has failed (transport failure, error in the stream, or
\* clean end with no role) and released the session, the transcript has as
\* many turns as when the send was invoked.
InvC1 ==
    (~locked /\ outcome \in Failures) => Len(messages) = Len(preMsgs)

\* A second send that failed mid-stream, after one fragment, was rolled back.
WitC1 ==
    /\ ~locked
    /\ outcome = "stream_error"
    /\ Len(preMsgs) = 2
    /\ Len(sentLog) = 2

\* ---- C2
\* C2: on a fresh session, after N sends that all committed (none failed),
\* the transcript has 2N turns.
InvC2 ==
    (~locked /\ failed = 0) => Len(messages) = 2 * commits

\* Two sends committed, none failed.
WitC2 ==
    /\ ~locked
    /\ failed = 0
    /\ commits = 2
    /\ Len(messages) = 4

\* ---- C3
BusyNoChange ==
    /\ result'.res = "Busy"
    /\ UNCHANGED <<sessionVars, taskVars, chanVars, histVars>>

\* C3: while a send holds the session, every send_message and set_model
\* call returns Busy in that same step, leaving the transcript, the model, the
\* lock, the running exchange and its channel as they were; and the calls are
\* always possible (they never wait).
ThmC3 ==
    /\ [][(locked /\ ( \/ \E c \in Contents, ok \in BOOLEAN : send_message(c, ok, <<>>)
                      \/ \E m \in Models : set_model(m) ))
            => BusyNoChange]_vars
    /\ [](locked => /\ \A c \in Contents : ENABLED send_message(c, TRUE, <<>>)
                    /\ \A m \in Models : ENABLED set_model(m))

\* A send was refused with Busy while another one is in flight.
WitC3 ==
    /\ locked
    /\ pc = "next"
    /\ result = Result("send_message", "Busy", 0)

\* ---- C4
\* C4 (as claimed): set_model succeeds iff the transcript has fewer than 2
\* turns, and otherwise fails with ModelLocked, keeping the model.
CexC4 ==
    [][\A m \in Models : set_model(m) =>
          IF Len(messages) < 2
          THEN result'.res = "Ok" /\ model' = m
          ELSE result'.res = "ModelLocked" /\ model' = model]_vars

\* C4 (amended): with no send in flight, set_model succeeds iff the
\* transcript has fewer than 2 turns and otherwise fails with ModelLocked;
\* with a send in flight it fails with Busy; a failed set_model keeps the
\* model.
ThmC4 ==
    [][\A m \in Models : set_model(m) =>
          IF locked
          THEN result'.res = "Busy" /\ model' = model
          ELSE IF Len(messages) < 2
          THEN result'.res = "Ok" /\ model' = m
          ELSE result'.res = "ModelLocked" /\ model' = model]_vars

\* The model was changed before the first exchange completed, and a later
\* set_model was refused with ModelLocked.
WitC4 ==
    /\ ~locked
    /\ Len(messages) >= 2
    /\ model # DEFAULT_MODEL
    /\ result = Result("set_model", "ModelLocked", 0)

\* ---- C7
\* C7: the task's sends are fragments followed by at most one error, which
\* is the last; when the frame after k well-formed deltas is malformed, the
\* sends are the k fragments and then the error of that frame; a send that
\* committed sent no error; and while the receiver exists the channel
\* carries (delivered or queued) exactly what was sent.
InvC7 ==
    /\ \A i \in 1..Len(sentLog) : ~sentLog[i].ok => i = Len(sentLog)
    /\ (stream_error # NoError /\ pc # "finish") =>
          LET k == DeltaPrefixLen(frames) IN
          /\ k < Len(frames)
          /\ sentLog = [i \in 1..k |-> Ok(Fragments(frames, k)[i])]
                          \o <<Err(ErrorOf(frames[k + 1]))>>
    /\ outcome = "committed" => \A i \in 1..Len(sentLog) : sentLog[i].ok
    /\ rxAlive => received \o queue = sentLog

\* One fragment, then malformed JSON: the consumer has received Ok and Err,
\* and the send was rolled back.
WitC7 ==
    /\ outcome = "stream_error"
    /\ rxAlive
    /\ received = <<Ok(<<"a">>), Err(InvalidSseEventData)>>
    /\ messages = preMsgs

\* ---- C8
\* C8: what the consumer has received is a prefix of what the task sent,
\* its fragments are a prefix of the fragments the decoder produced, in
\* order; and once __next__ has reported the end, it is all of them.
InvC8 ==
    LET n == DeltaPrefixLen(frames)
        decoded == IF pos < n THEN pos ELSE n IN
    /\ IsPrefix(received, sentLog)
    /\ IsPrefix(Tokens(received), Fragments(frames, decoded))
    /\ rxEnd => /\ received = sentLog
                /\ Tokens(received) = Fragments(frames, n)

\* Reads interleaved with writes: three distinct fragments received, the
\* last one read after the others, and the end reported.
WitC8 ==
    /\ rxEnd
    /\ Tokens(received) = <<<<"a">>, <<"b">>, <<"c">>>>

\* ---- C9
\* The last non-empty role among the first k deltas of fs.
LatestRole(fs, k) ==
    LET last == CHOOSE i \in 1..k :
                   /\ DeltaOf(fs[i]).role # NoRole
                   /\ \A j \in (i + 1)..k : DeltaOf(fs[j]).role = NoRole
    IN DeltaOf(fs[last]).role

\* C9 (as claimed): a send that ends cleanly with a role observed commits
\* one turn: its content is the concatenation of the fragments, its role the
\* latest non-empty role seen.
InvC9 ==
    LET k == DeltaPrefixLen(frames) IN
    (outcome = "committed" /\ \E i \in 1..k : DeltaOf(frames[i]).role # NoRole) =>
        /\ Len(messages) = Len(preMsgs) + 2
        /\ messages[Len(messages)] = ChatMessage(LatestRole(frames, k), Concat(frames, k))

\* ---- C10
\* What one exchange over body fs leaves after the user turn: the committed
\* turn, or nothing when the exchange is rolled back.
RECURSIVE Resolve(_, _, _, _)
Resolve(fs, i, r, c) ==
    IF i > Len(fs) \/ IsDoneFrame(fs[i])
    THEN (IF r = Unset THEN <<>> ELSE <<ChatMessage(r, c)>>)
    ELSE IF IsDeltaFrame(fs[i])
    THEN Resolve(fs, i + 1, DeltaOf(fs[i]).role, c \o DeltaOf(fs[i]).message)
    ELSE <<>>

\* C10: once a send over a given response body has resolved, the lock is
\* free and the transcript is the one the body alone determines, whatever
\* the consumer did (read everything, stopped reading, dropped the
\* receiver); and while the lock is held the task can always take its next
\* step, receiver or no receiver.
InvC10 ==
    /\ (outcome \in {"committed", "stream_error", "missing_role"}) =>
          /\ ~locked
          /\ LET t == Resolve(frames, 1, Unset, <<>>) IN
             IF t = <<>>
             THEN messages = preMsgs /\ outcome # "committed"
             ELSE /\ outcome = "committed"
                  /\ \E c \in Contents : messages = preMsgs \o <<ChatMessage("user", c)>> \o t
    /\ locked => ENABLED (TaskNext({}) \/ TaskFinish \/ TaskDropGuard)

\* The receiver was dropped before anything was read, and the send still
\* committed both fragments.
WitC10 ==
    /\ ~rxAlive
    /\ received = <<>>
    /\ outcome = "committed"
    /\ pos = 3
    /\ Len(messages) = 2
    /\ messages[2].content = <<"a", "b">>

\* ---- C11
\* No delta the task read carried a role.
NoRoleSeen == \A i \in 1..DeltaPrefixLen(frames) : DeltaOf(frames[i]).role = NoRole

\* C11 (as claimed): a send whose stream ended cleanly without any role
\* observed has failed: its last send on the channel is the missing-role
\* error, no turn was appended, the user turn is rolled back and the lock is
\* free.
InvC11 ==
    (outcome \in {"committed", "missing_role"} /\ NoRoleSeen) =>
        /\ outcome = "missing_role"
        /\ ~locked
        /\ messages = preMsgs
        /\ sentLog # <<>>
        /\ sentLog[Len(sentLog)] = Err(MissingRoleError)

\* ---- C12
\* The transport delivered a response of success status.
Delivered(resp) == resp.sent /\ ~error_for_status(resp.status)

NoSession == vqd = NoVqd /\ model = NoModel /\ messages = <<>>

\* C12: Chat::init produces a session only from a response that carries the
\* x-vqd-4 header, and that session has an empty transcript, the default
\* model and the header's value as its token; a delivered response without
\* the header makes it fail with MissingVqd; a delivered response with the
\* header and a readable body makes it succeed; every failure leaves no
\* session.
InvC12 ==
    /\ result.res = "Ok" =>
          /\ init_response.header \in VqdTokens
          /\ messages = <<>>
          /\ model = DEFAULT_MODEL
          /\ vqd = init_response.header
    /\ (result.res # "none" /\ Delivered(init_response)
          /\ init_response.header = NoHeader) => result.res = "MissingVqd"
    /\ (result.res # "none" /\ Delivered(init_response)
          /\ init_response.header \in VqdTokens /\ init_response.bodyOk) => result.res = "Ok"
    /\ result.res # "Ok" => NoSession

\* A delivered response without the header: MissingVqd, no session.
WitC12 ==
    /\ Delivered(init_response)
    /\ init_response.header = NoHeader
    /\ result = Result("init", "MissingVqd", 0)
    /\ NoSession

\* ---- C13
\* The outcome the claim assigns to one frame, in the claimed order.
Classify(f) ==
    IF f.err THEN ItemErr(InvalidSseEvent)
    ELSE IF f.data = NoData THEN ItemErr(SseEventMissingData)
    ELSE IF f.data = DoneData THEN ItemNone
    ELSE IF f.data \notin DeltaData THEN ItemErr(InvalidSseEventData)
    ELSE ItemOk(DeltaOf(f))

\* Number of frames of fs the stream ever consumes: up to the first sentinel.
ConsumedLimit(fs) == IF FirstDone(fs) > 0 THEN FirstDone(fs) ELSE Len(fs)

\* C13: the i-th poll consumes the i-th frame (as long as no sentinel was
\* consumed and frames remain) and yields the one outcome the order
\* framing error, missing data, sentinel, invalid payload, delta gives that
\* frame; polls that consume nothing report the end; the position counts
\* the frames consumed, one per such poll.
InvC13 ==
    /\ \A i \in 1..Len(yielded) :
          IF i <= ConsumedLimit(frames)
          THEN yielded[i] = Classify(frames[i])
          ELSE yielded[i] = ItemNone
    /\ pos = IF Len(yielded) < ConsumedLimit(frames) THEN Len(yielded)
             ELSE ConsumedLimit(frames)

\* A malformed payload, a delta and the sentinel, each polled.
WitC13 ==
    /\ frames = <<Event(BadJson), Event(JsonNoRole), Event(DoneData)>>
    /\ Len(yielded) = 3
    /\ yielded[1].kind = "err"
    /\ yielded[2].kind = "ok"
    /\ yielded[3].kind = "none"

\* ---- C14
\* C14: with the task scheduled fairly and the response body ending, every
\* send that took the lock eventually releases it: the session never stays
\* in Sending.
LiveC14 == locked ~> ~locked

\* Two sends took the lock and both gave it back, one by commit and one by
\* rollback; the task has ended.
WitC14 ==
    /\ ~locked
    /\ pc = "idle"
    /\ commits = 1
    /\ failed = 1
    /\ outcome = "missing_role"

\* ---- C15
\* C15: a send leaves the turns that were in the transcript before the call
\* as they were: while it is pending the transcript is those turns and the
\* tentative user turn; after a failure it is exactly those turns; after a
\* commit it is those turns, the user turn and one more; and no step of the
\* session changes or removes a turn other than the last one.
ThmC15 ==
    /\ [](/\ IsPrefix(preMsgs, messages)
          /\ (locked /\ pop_last) =>
                 /\ Len(messages) = Len(preMsgs) + 1
                 /\ messages[Len(messages)].role = "user"
          /\ (~locked /\ outcome \in Failures) => messages = preMsgs
          /\ (~locked /\ outcome = "committed") =>
                 /\ Len(messages) = Len(preMsgs) + 2
                 /\ messages[Len(preMsgs) + 1].role = "user")
    /\ [][\/ IsPrefix(messages, messages')
          \/ /\ messages # <<>>
             /\ messages' = SubSeq(messages, 1, Len(messages) - 1)]_vars

\* A send on a transcript of one completed exchange was refused by the
\* transport and rolled back to that exchange.
WitC15 ==
    /\ ~locked
    /\ outcome = "transport_error"
    /\ Len(preMsgs) = 2
    /\ messages = preMsgs

\* ---- C16
\* C16: no step changes the model once the transcript has 2 or more turns or
\* an exchange has committed, nor while a send is in flight (so the model a
\* committed exchange was sent with is the model of the session afterwards).
ThmC16 ==
    [][(Len(messages) >= 2 \/ commits >= 1 \/ locked) => model' = model]_vars

\* A set_model issued while the first send was in flight was refused, and
\* that send has committed with the model it started with.
WitC16 ==
    /\ ~locked
    /\ commits = 1
    /\ failed = 0
    /\ Len(messages) = 2
    /\ model = DEFAULT_MODEL
    /\ result = Result("set_model", "Busy", 0)

\* ---- C17
\* C17: every send that took the lock resolves exactly once.  The guard is
\* armed from the push of the user turn until push_response (so the assert
\* in push_response holds when the task calls it); the transcript counts two
\* turns per commit and nothing per rollback, plus the pending exchange's
\* one turn (armed) or two (defused); and the step that releases the lock
\* is either a rollback to the turns before the send or a commit that keeps
\* the two turns appended, counted once as the one or the other.
ThmC17 ==
    /\ []((locked /\ pc \in {"next", "finish"}) => pop_last)
    /\ [](Len(messages) =
            2 * commits + (IF ~locked THEN 0 ELSE IF pop_last THEN 1 ELSE 2))
    /\ [][(locked /\ ~locked') =>
            IF pop_last
            THEN /\ messages' = preMsgs
                 /\ failed' = failed + 1 /\ commits' = commits
            ELSE /\ messages' = messages
                 /\ Len(messages) = Len(preMsgs) + 2
                 /\ commits' = commits + 1 /\ failed' = failed]_vars
    /\ [][(~locked /\ ~locked') =>
            /\ commits' = commits
            /\ failed' \in {failed, failed + 1}
            /\ messages' = messages]_vars

\* A send rolled back and the next one committed: two resolutions, one of
\* each kind, and the transcript holds the one committed exchange.
WitC17 ==
    /\ ~locked
    /\ outcome = "committed"
    /\ commits = 1
    /\ failed = 1
    /\ Len(messages) = 2

\* ---- C18
\* C18: whenever the lock is free the transcript has an even number of
\* turns; the turns at even positions counted from 0 are user turns (in
\* every state); an odd length occurs only under the lock; and a __len__ or
\* __getitem__ that succeeds ran with the lock free, on a transcript of whole
\* exchanges: the count is even and the index is that of a turn of a
\* completed exchange.
ThmC18 ==
    /\ [](/\ ~locked => Len(messages) % 2 = 0
          /\ \A i \in 1..Len(messages) : i % 2 = 1 => messages[i].role = "user"
          /\ Len(messages) % 2 = 1 => (locked /\ pop_last)
          /\ (result.op = "len" /\ result.res = "Ok") => result.val % 2 = 0)
    /\ [][(len \/ \E index \in Indices : getitem(index)) =>
            (result'.res = "Ok" =>
                /\ ~locked
                /\ Len(messages) = 2 * commits
                /\ result'.op = "len" => result'.val = Len(messages)
                /\ result'.op = "getitem" => result'.val < 2 * commits)]_vars

\* After a send that was rolled back and one that committed, the assistant
\* turn of the committed exchange was read.
WitC18 ==
    /\ ~locked
    /\ failed = 1
    /\ commits = 1
    /\ result = Result("getitem", "Ok", 1)

\* ---- C19
\* The consumer has been handed the last message of the send: an error, or
\* the end of the channel.
LastDelivered ==
    \/ received # <<>> /\ ~received[Len(received)].ok
    \/ rxEnd

\* C19: once the consumer has been handed the last message of a send, the
\* exchange has resolved: the lock is free (so a send, set_model or __len__
\* made now is not refused with Busy) and the transcript is final, the turns
\* before the send after a failure, two more after a commit.
InvC19 ==
    LastDelivered =>
        /\ ~locked
        /\ \A c \in Contents : ~ENABLED (send_message(c, TRUE, <<>>) /\ result'.res = "Busy")
        /\ outcome \in Failures => messages = preMsgs
        /\ outcome = "committed" => Len(messages) = Len(preMsgs) + 2

\* ---- C20
\* C20: an assistant turn is pushed and committed only when the decoder has
\* seen the [DONE] frame: a response body that ends before any [DONE]
\* commits nothing.
InvC20 ==
    /\ (locked /\ ~pop_last) => (done /\ FirstDone(frames) # 0)
    /\ outcome = "committed" => (done /\ FirstDone(frames) # 0)

====
